---------------------------- MODULE Spec2Model ----------------------------
(***************************************************************************)
(* Model of src/data/program_configuration.js: the paint-property binders  *)
(* (ConstantBinder, SourceExpressionBinder, CompositeExpressionBinder),    *)
(* ProgramConfiguration and ProgramConfigurationSet, together with the GPU *)
(* context they call into (createVertexBuffer / VertexBuffer.destroy).     *)
(*                                                                         *)
(* JavaScript values are represented as follows:                           *)
(*   - a string that is sorted or concatenated by the code is a sequence   *)
(*     of UTF-16 code units; other strings are TLA+ strings;               *)
(*   - an object with insertion-ordered string keys (binders,              *)
(*     programConfigurations) is a sequence of keys plus a function;       *)
(*   - undefined (a missing paintVertexBuffer) is 0, buffer handles are    *)
(*     1, 2, ... in order of creation;                                     *)
(*   - -Infinity is the empty tuple << >>, a finite number v is <<v>>      *)
(*     (statistics.max only);                                              *)
(*   - an exception is the name of its class, "none" when nothing threw.   *)
(***************************************************************************)
EXTENDS Integers, Sequences, FiniteSets, TLC

\* ------------------------------------------------------------------ bounds
\* largest vertex count passed to populatePaintArray(s)
MaxLen == 2
\* largest number of binders in the configurations of the initial state
MaxBinders == 2
\* largest number of paint properties declared by the layers handed to the
\* ProgramConfigurationSet constructor
MaxDecl == 2
\* largest number of buffer handles created by the context
MaxHandles == 2
\* largest number of VertexBuffer.destroy calls
MaxDestroyCalls == 2

\* ------------------------------------------------------------------ inputs
\* layer identifiers
Layers == {"l1", "l2"}
\* paint properties with 'property-function' in the style specification
DataDrivenProps == {"fill-color", "fill-opacity", "line-pattern"}
\* all paint properties a layer may declare
Props == DataDrivenProps \cup {"fill-antialias"}
\* features; the number is the feature's data value
Features == {1, 2}
\* tile zoom levels
Zooms == {1}
\* filterProperties predicates, as the set of properties they accept
Filters == {Props, Props \ {"fill-opacity"}}

undefined == 0

\* value.property.specification.type
SpecificationType(property) ==
    CASE property = "fill-color" -> "color"
      [] property = "fill-opacity" -> "number"
      [] property = "line-pattern" -> "string"
      [] OTHER -> "boolean"

\* UTF-16 code units of the property names
CodeUnits(property) ==
    CASE property = "fill-color" ->
            <<102, 105, 108, 108, 45, 99, 111, 108, 111, 114>>
      [] property = "fill-opacity" ->
            <<102, 105, 108, 108, 45, 111, 112, 97, 99, 105, 116, 121>>
      [] property = "line-pattern" ->
            <<108, 105, 110, 101, 45, 112, 97, 116, 116, 101, 114, 110>>
      [] OTHER ->
            <<102, 105, 108, 108, 45, 97, 110, 116, 105, 97, 108, 105, 97, 115>>

\* ------------------------------------------------------- expression engine
\* expression.evaluate({zoom}, feature) of a number-typed expression
EvaluateNumber(zoom, feature) ==
    IF feature % 2 = 1 THEN feature + zoom ELSE feature - 2 * zoom

\* expression.evaluate({zoom}, feature) of a color-typed expression
EvaluateColor(zoom, feature) ==
    [r |-> feature % 2, g |-> zoom % 2, b |-> 1, a |-> 1]

\* ------------------------------------------------------------ color packer
packUint8ToFloat(a, b) == 256 * a + b

packColor(color) ==
    << packUint8ToFloat(255 * color.r, 255 * color.g),
       packUint8ToFloat(255 * color.b, 255 * color.a) >>

\* ------------------------------------------------------------------ Math.max
Greater(a, b) == IF a >= b THEN a ELSE b

RECURSIVE MaxOfSeq(_)
MaxOfSeq(s) ==
    IF Len(s) = 1 THEN s[1] ELSE Greater(s[1], MaxOfSeq(Tail(s)))

\* faulty variant of MathMax: only the first value feeds the maximum
MathMax_first_only(max, values) ==
    IF max = << >> THEN << values[1] >> ELSE << Greater(max[1], values[1]) >>

\* Math.max(max, ...values) on a statistics.max that may be -Infinity
MathMax(max, values) ==
    IF max = << >> THEN << MaxOfSeq(values) >>
    ELSE << Greater(max[1], MaxOfSeq(values)) >>

\* ------------------------------------------------------------------ binders
ConstantBinder(type) ==
    [kind |-> "constant", type |-> type, zoom |-> 0, layout |-> "none",
     max |-> << >>, paintVertexArray |-> << >>,
     paintVertexBuffer |-> undefined, evaluated |-> {}]

SourceExpressionBinder(type, layout) ==
    [kind |-> "source", type |-> type, zoom |-> 0, layout |-> layout,
     max |-> << >>, paintVertexArray |-> << >>,
     paintVertexBuffer |-> undefined, evaluated |-> {}]

CompositeExpressionBinder(type, zoom, layout) ==
    [kind |-> "composite", type |-> type, zoom |-> zoom, layout |-> layout,
     max |-> << >>, paintVertexArray |-> << >>,
     paintVertexBuffer |-> undefined, evaluated |-> {}]

\* faulty variant of EmplaceBackLoop: the loop stops one vertex early
EmplaceBackLoop_one_short(paintArray, length, entry) ==
    paintArray \o [i \in 1..(length - Len(paintArray) - 1) |-> entry]

\* for (let i = start; i < length; i++) paintArray.emplaceBack(...entry),
\* start being the array's length
EmplaceBackLoop(paintArray, length, entry) ==
    paintArray \o [i \in 1..(length - Len(paintArray)) |-> entry]

SourcePopulatePaintArray(b, length, feature) ==
    IF b.type = "color"
    THEN LET color == packColor(EvaluateColor(0, feature))
         IN  [b EXCEPT !.paintVertexArray =
                  EmplaceBackLoop(@, length, <<color[1], color[2]>>)]
    ELSE LET value == EvaluateNumber(0, feature)
         IN  [b EXCEPT !.paintVertexArray = EmplaceBackLoop(@, length, <<value>>),
                       !.max = MathMax(@, <<value>>),
                       !.evaluated = @ \cup {value}]

\* faulty variant of CompositePopulatePaintArray: both bounds are evaluated
\* at this.zoom
CompositePopulatePaintArray_same_zoom(b, length, feature) ==
    LET min == EvaluateNumber(b.zoom, feature)
    IN  [b EXCEPT !.paintVertexArray = EmplaceBackLoop(@, length, <<min, min>>),
                  !.max = MathMax(@, <<min, min>>),
                  !.evaluated = @ \cup {min}]

CompositePopulatePaintArray(b, length, feature) ==
    IF b.type = "color"
    THEN LET minColor == packColor(EvaluateColor(b.zoom, feature))
             maxColor == packColor(EvaluateColor(b.zoom + 1, feature))
         IN  [b EXCEPT !.paintVertexArray =
                  EmplaceBackLoop(@, length,
                      <<minColor[1], minColor[2], maxColor[1], maxColor[2]>>)]
    ELSE LET min == EvaluateNumber(b.zoom, feature)
             max == EvaluateNumber(b.zoom + 1, feature)
         IN  [b EXCEPT !.paintVertexArray = EmplaceBackLoop(@, length, <<min, max>>),
                       !.max = MathMax(@, <<min, max>>),
                       !.evaluated = @ \cup {min, max}]

\* Binder.populatePaintArray, dispatched on the binder's class
populatePaintArray(b, length, feature) ==
    CASE b.kind = "source" -> SourcePopulatePaintArray(b, length, feature)
      [] b.kind = "composite" -> CompositePopulatePaintArray(b, length, feature)
      [] OTHER -> b


\* ---------------------------------------------------------- layout selection
\* identifiers bound in the module scope: the imports and the module's own
\* functions and classes
ModuleBindings ==
    {"packUint8ToFloat", "Color", "register", "PossiblyEvaluatedPropertyValue",
     "StructArrayLayout1f4", "StructArrayLayout2f8", "StructArrayLayout4f16",
     "packColor", "ConstantBinder", "SourceExpressionBinder",
     "CompositeExpressionBinder", "ProgramConfiguration",
     "ProgramConfigurationSet", "paintAttributeName", "getLayoutException",
     "layoutType"}

\* evaluating an identifier: its binding, or a ReferenceError
Resolve(identifier) ==
    IF identifier \in ModuleBindings THEN "none" ELSE "ReferenceError"

\* getLayoutException builds the propertyExceptions literal on every call,
\* which evaluates both layout identifiers, then looks the property up
getLayoutException(property) ==
    IF Resolve("LinePatternSourceExpressionLayoutArray") # "none"
       \/ Resolve("LinePatternCompositeExpressionLayoutArray") # "none"
    THEN [exception |-> "ReferenceError", found |-> FALSE,
          source |-> "none", composite |-> "none"]
    ELSE IF property = "line-pattern"
    THEN [exception |-> "none", found |-> TRUE,
          source |-> "LinePatternSourceExpressionLayoutArray",
          composite |-> "LinePatternCompositeExpressionLayoutArray"]
    ELSE [exception |-> "none", found |-> FALSE,
          source |-> "none", composite |-> "none"]

\* defaultLayouts[type][binderType]; indexing the missing row of another
\* type is a TypeError
defaultLayouts(type, binderType) ==
    CASE type = "color" /\ binderType = "source" -> "StructArrayLayout2f8"
      [] type = "color" /\ binderType = "composite" -> "StructArrayLayout4f16"
      [] type = "number" /\ binderType = "source" -> "StructArrayLayout1f4"
      [] type = "number" /\ binderType = "composite" -> "StructArrayLayout2f8"
      [] OTHER -> "TypeError"

layoutType(property, type, binderType) ==
    LET layoutException == getLayoutException(property)
    IN  IF layoutException.exception # "none"
        THEN [exception |-> layoutException.exception, layout |-> "none"]
        ELSE IF layoutException.found
        THEN [exception |-> "none",
              layout |-> IF binderType = "source" THEN layoutException.source
                         ELSE layoutException.composite]
        ELSE IF defaultLayouts(type, binderType) = "TypeError"
        THEN [exception |-> "TypeError", layout |-> "none"]
        ELSE [exception |-> "none", layout |-> defaultLayouts(type, binderType)]

\* float components per vertex of a struct array layout
LayoutComponents(layout) ==
    CASE layout = "StructArrayLayout1f4" -> 1
      [] layout = "StructArrayLayout2f8" -> 2
      [] layout = "StructArrayLayout4f16" -> 4
      [] OTHER -> 0

\* components of the entries of paintVertexAttributes (one entry per name;
\* only line-pattern's names match /pattern/)
AttributeComponents(property, b) ==
    IF b.kind = "source"
    THEN (IF b.type = "color" \/ property = "line-pattern" THEN 2 ELSE 1)
    ELSE (IF b.type = "color" THEN 4 ELSE 2)

\* ------------------------------------------------------------------ cacheKey
\* `/u_${property}`, `/a_${property}`, `/z_${property}`
Token(kind, property) ==
    << 47,
       CASE kind = "constant" -> 117 [] kind = "source" -> 97 [] OTHER -> 122,
       95 >> \o CodeUnits(property)

\* a < b in the order of Array.prototype.sort without a comparator:
\* code unit by code unit, a proper prefix first
RECURSIVE StringLess(_, _)
StringLess(a, b) ==
    IF b = << >> THEN FALSE
    ELSE IF a = << >> THEN TRUE
    ELSE IF a[1] # b[1] THEN a[1] < b[1]
    ELSE StringLess(Tail(a), Tail(b))

RECURSIVE Insert(_, _)
Insert(sorted, k) ==
    IF sorted = << >> THEN << k >>
    ELSE IF StringLess(k, sorted[1]) THEN << k >> \o sorted
    ELSE << sorted[1] >> \o Insert(Tail(sorted), k)

\* keys.sort()
RECURSIVE Sort(_)
Sort(keys) ==
    IF keys = << >> THEN << >>
    ELSE Insert(Sort(SubSeq(keys, 1, Len(keys) - 1)), keys[Len(keys)])

\* keys.join('')
RECURSIVE Join(_)
Join(keys) ==
    IF keys = << >> THEN << >> ELSE keys[1] \o Join(Tail(keys))

\* ------------------------------------------------------ ProgramConfiguration
\* new ProgramConfiguration(), stored under a layer id
NewProgramConfiguration(id) ==
    [id |-> id, keys |-> << >>, binders |-> << >>,
     cacheKey |-> << >>, _buffers |-> << >>]

\* self.binders[property] = binder
SetBinder(self, property, binder) ==
    [self EXCEPT
        !.keys = IF property \in DOMAIN self.binders THEN @
                 ELSE Append(@, property),
        !.binders = [p \in DOMAIN self.binders \cup {property} |->
                        IF p = property THEN binder ELSE self.binders[p]]]

\* the loop of createDynamic over layer.paint._values, from entry i on
RECURSIVE createDynamicLoop(_, _, _, _, _, _)
createDynamicLoop(paint, i, zoom, filterProperties, self, keys) ==
    IF i > Len(paint)
    THEN [exception |-> "none",
          self |-> [self EXCEPT !.cacheKey = Join(Sort(keys))]]
    ELSE LET property == paint[i].property
             kind == paint[i].kind
             type == SpecificationType(property)
         IN  IF property \notin filterProperties
             THEN createDynamicLoop(paint, i + 1, zoom, filterProperties, self, keys)
             ELSE IF property \notin DataDrivenProps
             THEN createDynamicLoop(paint, i + 1, zoom, filterProperties, self, keys)
             ELSE IF kind = "constant"
             THEN createDynamicLoop(paint, i + 1, zoom, filterProperties,
                      SetBinder(self, property, ConstantBinder(type)),
                      Append(keys, Token(kind, property)))
             ELSE LET structArrayLayout == layoutType(property, type, kind)
                  IN  IF structArrayLayout.exception # "none"
                      THEN [exception |-> structArrayLayout.exception, self |-> self]
                      ELSE createDynamicLoop(paint, i + 1, zoom, filterProperties,
                               SetBinder(self, property,
                                   IF kind = "source"
                                   THEN SourceExpressionBinder(type,
                                            structArrayLayout.layout)
                                   ELSE CompositeExpressionBinder(type, zoom,
                                            structArrayLayout.layout)),
                               Append(keys, Token(kind, property)))

createDynamic(layer, zoom, filterProperties) ==
    createDynamicLoop(layer.paint, 1, zoom, filterProperties,
                      NewProgramConfiguration(layer.id), << >>)

\* the loop of populatePaintArrays over this.binders, from key i on;
\* made: the populatePaintArray calls made so far, as the binders' keys
RECURSIVE populatePaintArraysLoop(_, _, _, _, _)
populatePaintArraysLoop(self, i, length, feature, made) ==
    IF i > Len(self.keys)
    THEN [exception |-> "none", self |-> self, made |-> made]
    ELSE LET property == self.keys[i]
             layoutException == getLayoutException(property)
         IN  IF layoutException.exception # "none"
             THEN [exception |-> layoutException.exception,
                   self |-> self, made |-> made]
             ELSE IF layoutException.found
             THEN populatePaintArraysLoop(self, i + 1, length, feature, made)
             ELSE populatePaintArraysLoop(
                      [self EXCEPT !.binders[property] =
                          populatePaintArray(@, length, feature)],
                      i + 1, length, feature,
                      Append(made, <<self.id, property>>))

populatePaintArrays(self, length, feature) ==
    populatePaintArraysLoop(self, 1, length, feature, << >>)

\* faulty variant of HasPaintVertexArray: the guard tests the array's length
HasPaintVertexArray_non_empty(b) ==
    b.kind \in {"source", "composite"} /\ Len(b.paintVertexArray) > 0

\* if (this.paintVertexArray) in upload: an array object is truthy whatever
\* its length, and the constructor always creates one; ConstantBinder.upload
\* does nothing
HasPaintVertexArray(b) ==
    b.kind \in {"source", "composite"}

\* the first loop of upload: binder.upload(context) on every binder from
\* key i on; created: the context's buffers, a handle being its index
RECURSIVE uploadLoop(_, _, _)
uploadLoop(self, i, created) ==
    IF i > Len(self.keys)
    THEN [self |-> self, created |-> created]
    ELSE LET property == self.keys[i]
             b == self.binders[property]
         IN  IF HasPaintVertexArray(b)
             THEN uploadLoop(
                      [self EXCEPT !.binders[property].paintVertexBuffer =
                          Len(created) + 1],
                      i + 1,
                      Append(created, [layer |-> self.id, property |-> property]))
             ELSE uploadLoop(self, i + 1, created)

\* faulty variant of IsBufferBacked: no test of the class or of the buffer
IsBufferBacked_any_binder(b) ==
    b.kind \in {"constant", "source", "composite"}

\* (binder instanceof SourceExpressionBinder ||
\*  binder instanceof CompositeExpressionBinder) && binder.paintVertexBuffer
IsBufferBacked(b) ==
    b.kind \in {"source", "composite"} /\ b.paintVertexBuffer # undefined

\* the second loop of upload: the buffers pushed from key i on
RECURSIVE collectBuffers(_, _)
collectBuffers(self, i) ==
    IF i > Len(self.keys) THEN << >>
    ELSE LET b == self.binders[self.keys[i]]
         IN  IF IsBufferBacked(b)
             THEN << b.paintVertexBuffer >> \o collectBuffers(self, i + 1)
             ELSE collectBuffers(self, i + 1)

upload(self, created) ==
    LET forwarded == uploadLoop(self, 1, created)
    IN  [self |-> [forwarded.self EXCEPT
                      !._buffers = collectBuffers(forwarded.self, 1)],
         created |-> forwarded.created]

getPaintVertexBuffers(self) == self._buffers

\* faulty variant of BinderDestroy: destroy is called without the guard
BinderDestroy_unguarded(b, log) ==
    IF b.kind = "constant" THEN log ELSE Append(log, b.paintVertexBuffer)

\* binder.destroy(): if (this.paintVertexBuffer) this.paintVertexBuffer.destroy();
\* ConstantBinder.destroy does nothing
BinderDestroy(b, log) ==
    IF b.kind \in {"source", "composite"} /\ b.paintVertexBuffer # undefined
    THEN Append(log, b.paintVertexBuffer)
    ELSE log

\* the loop of destroy; log: the handles VertexBuffer.destroy was called on
RECURSIVE destroyLoop(_, _, _)
destroyLoop(self, i, log) ==
    IF i > Len(self.keys) THEN log
    ELSE destroyLoop(self, i + 1, BinderDestroy(self.binders[self.keys[i]], log))

destroy(self, log) == destroyLoop(self, 1, log)

\* --------------------------------------------------- ProgramConfigurationSet
\* the loop of the constructor over layers, from layer i on
RECURSIVE constructorLoop(_, _, _, _, _)
constructorLoop(layers, i, zoom, filterProperties, configurations) ==
    IF i > Len(layers)
    THEN [exception |-> "none", programConfigurations |-> configurations]
    ELSE LET made == createDynamic(layers[i], zoom, filterProperties)
         IN  IF made.exception # "none"
             THEN [exception |-> made.exception,
                   programConfigurations |-> configurations]
             ELSE constructorLoop(layers, i + 1, zoom, filterProperties,
                                  Append(configurations, made.self))

\* the loop of ProgramConfigurationSet.populatePaintArrays, from entry i on
RECURSIVE setPopulatePaintArraysLoop(_, _, _, _, _)
setPopulatePaintArraysLoop(configurations, i, length, feature, made) ==
    IF i > Len(configurations)
    THEN [exception |-> "none", programConfigurations |-> configurations,
          made |-> made]
    ELSE LET r == populatePaintArraysLoop(configurations[i], 1, length,
                                          feature, made)
         IN  IF r.exception # "none"
             THEN [exception |-> r.exception,
                   programConfigurations |->
                       [configurations EXCEPT ![i] = r.self],
                   made |-> r.made]
             ELSE setPopulatePaintArraysLoop(
                      [configurations EXCEPT ![i] = r.self],
                      i + 1, length, feature, r.made)

\* the loop of ProgramConfigurationSet.upload, from entry i on
RECURSIVE setUploadLoop(_, _, _)
setUploadLoop(configurations, i, created) ==
    IF i > Len(configurations)
    THEN [programConfigurations |-> configurations, created |-> created]
    ELSE LET r == upload(configurations[i], created)
         IN  setUploadLoop([configurations EXCEPT ![i] = r.self],
                           i + 1, r.created)

\* the loop of ProgramConfigurationSet.destroy, from entry i on
RECURSIVE setDestroyLoop(_, _, _)
setDestroyLoop(configurations, i, log) ==
    IF i > Len(configurations) THEN log
    ELSE setDestroyLoop(configurations, i + 1, destroy(configurations[i], log))

\* -------------------------------------------------------------------- state
VARIABLES
    \* ProgramConfigurationSet.programConfigurations, in insertion order
    programConfigurations,
    \* the context's vertex buffers: entry h records the createVertexBuffer
    \* call that returned handle h
    vertexBuffers,
    \* the handles VertexBuffer.destroy was called on, in call order
    destroyCalls,
    \* ids of the configurations upload has run on
    uploaded,
    \* the exception the last call threw, "none" if it returned
    exception,
    \* the last call and its arguments
    lastCall

vars == <<programConfigurations, vertexBuffers, destroyCalls, uploaded,
          exception, lastCall>>

Call(op) ==
    [op |-> op, made |-> << >>, declared |-> {}, accepted |-> {}, zoom |-> 0]

Kinds == {"constant", "source", "composite"}

\* the layout a caller hands to a binder's constructor
ConstructorLayout(property, type, kind) ==
    IF property = "line-pattern"
    THEN (IF kind = "source" THEN "LinePatternSourceExpressionLayoutArray"
          ELSE "LinePatternCompositeExpressionLayoutArray")
    ELSE defaultLayouts(type, kind)

\* a binder as its constructor leaves it
NewBinder(property, kind, zoom) ==
    LET type == SpecificationType(property)
    IN  CASE kind = "constant" -> ConstantBinder(type)
          [] kind = "source" ->
                SourceExpressionBinder(type, ConstructorLayout(property, type, kind))
          [] OTHER ->
                CompositeExpressionBinder(type, zoom,
                                          ConstructorLayout(property, type, kind))

\* sequences of at most n distinct elements of S
DistinctSeqs(S, n) ==
    UNION {{s \in [1..m -> S] : \A i, j \in 1..m : s[i] = s[j] => i = j} :
           m \in 0..n}

\* configurations holding at most n freshly constructed binders
FreshConfigurations(id, n, zoom) ==
    {[id |-> id, keys |-> keys,
      binders |-> [p \in {keys[i] : i \in 1..Len(keys)} |->
                      NewBinder(p, kindOf[p], zoom)],
      cacheKey |-> << >>, _buffers |-> << >>] :
        keys \in DistinctSeqs(DataDrivenProps, n),
        kindOf \in [DataDrivenProps -> Kinds]}

\* A set of no or one configuration whose binders are as their constructors
\* leave them, nothing populated or uploaded. The binder classes and
\* ProgramConfiguration are registered for transfer between threads, so a
\* configuration reaches this module with binders of any class.
Init ==
    /\ \E zoom \in Zooms :
          \/ programConfigurations = << >>
          \/ \E c1 \in FreshConfigurations("l1", MaxBinders, zoom) :
                programConfigurations = << c1 >>
    /\ vertexBuffers = << >>
    /\ destroyCalls = << >>
    /\ uploaded = {}
    /\ exception = "none"
    /\ lastCall = Call("new")

\* ------------------------------------------------------------------ actions
\* paint declarations of a layer: distinct properties, each with the kind
\* its value evaluates to
Paints(n) ==
    {[i \in 1..Len(keys) |-> [property |-> keys[i], kind |-> kindOf[keys[i]]]] :
        keys \in DistinctSeqs(Props, n),
        kindOf \in {k \in [Props -> Kinds] : k["fill-antialias"] = "constant"}}

LayerLists ==
    {<< [id |-> "l1", paint |-> p] >> : p \in Paints(MaxDecl)}
    \cup {<< [id |-> "l1", paint |-> p[1]], [id |-> "l2", paint |-> p[2]] >> :
            p \in {q \in Paints(MaxDecl) \X Paints(MaxDecl) :
                      Len(q[1]) + Len(q[2]) <= MaxDecl}}

Declared(layers) ==
    UNION {{<<layers[i].id, layers[i].paint[j].property, layers[i].paint[j].kind>> :
               j \in 1..Len(layers[i].paint)} : i \in 1..Len(layers)}

\* new ProgramConfigurationSet(layoutAttributes, layers, zoom, filterProperties)
ProgramConfigurationSetConstructor(layers, zoom, filterProperties) ==
    /\ lastCall.op = "new"
    /\ programConfigurations = << >>
    /\ LET r == constructorLoop(layers, 1, zoom, filterProperties, << >>)
       IN  /\ exception' = r.exception
           /\ programConfigurations' =
                  IF r.exception = "none" THEN r.programConfigurations
                  ELSE programConfigurations
    /\ lastCall' = [Call("constructor") EXCEPT
                       !.declared = Declared(layers),
                       !.accepted = filterProperties,
                       !.zoom = zoom]
    /\ UNCHANGED <<vertexBuffers, destroyCalls, uploaded>>

\* ProgramConfigurationSet.populatePaintArrays(length, feature)
SetPopulatePaintArrays(length, feature) ==
    /\ programConfigurations # << >>
    /\ LET r == setPopulatePaintArraysLoop(programConfigurations, 1,
                                           length, feature, << >>)
       IN  /\ exception' = r.exception
           /\ programConfigurations' = r.programConfigurations
           /\ lastCall' = [Call("populatePaintArrays") EXCEPT
                              !.made = r.made]
    /\ UNCHANGED <<vertexBuffers, destroyCalls, uploaded>>

\* ProgramConfiguration.populatePaintArrays(length, feature) on the i-th
\* configuration of the set
ConfigurationPopulatePaintArrays(i, length, feature) ==
    /\ i \in DOMAIN programConfigurations
    /\ LET r == populatePaintArrays(programConfigurations[i], length, feature)
       IN  /\ exception' = r.exception
           /\ programConfigurations' =
                  [programConfigurations EXCEPT ![i] = r.self]
           /\ lastCall' = [Call("populatePaintArrays") EXCEPT !.made = r.made]
    /\ UNCHANGED <<vertexBuffers, destroyCalls, uploaded>>

\* binder.populatePaintArray(length, feature) on one binder of generic
\* layout (the binders of line-pattern are filled by property-specific code)
BinderPopulatePaintArray(i, property, length, feature) ==
    /\ i \in DOMAIN programConfigurations
    /\ property \in DOMAIN programConfigurations[i].binders
    /\ property # "line-pattern"
    /\ programConfigurations' =
           [programConfigurations EXCEPT ![i].binders[property] =
               populatePaintArray(@, length, feature)]
    /\ exception' = "none"
    /\ lastCall' = Call("populatePaintArray")
    /\ UNCHANGED <<vertexBuffers, destroyCalls, uploaded>>

\* ProgramConfigurationSet.upload(context)
SetUpload ==
    /\ programConfigurations # << >>
    /\ LET r == setUploadLoop(programConfigurations, 1, vertexBuffers)
       IN  /\ Len(r.created) <= MaxHandles
           /\ programConfigurations' = r.programConfigurations
           /\ vertexBuffers' = r.created
    /\ uploaded' = uploaded \cup
           {programConfigurations[i].id : i \in DOMAIN programConfigurations}
    /\ exception' = "none"
    /\ lastCall' = Call("upload")
    /\ UNCHANGED destroyCalls

\* ProgramConfiguration.upload(context) on the i-th configuration
ConfigurationUpload(i) ==
    /\ i \in DOMAIN programConfigurations
    /\ LET r == upload(programConfigurations[i], vertexBuffers)
       IN  /\ Len(r.created) <= MaxHandles
           /\ programConfigurations' =
                  [programConfigurations EXCEPT ![i] = r.self]
           /\ vertexBuffers' = r.created
    /\ uploaded' = uploaded \cup {programConfigurations[i].id}
    /\ exception' = "none"
    /\ lastCall' = Call("upload")
    /\ UNCHANGED destroyCalls

\* ProgramConfigurationSet.destroy()
SetDestroy ==
    /\ programConfigurations # << >>
    /\ LET log == setDestroyLoop(programConfigurations, 1, destroyCalls)
       IN  /\ Len(log) <= MaxDestroyCalls
           /\ destroyCalls' = log
    /\ exception' = "none"
    /\ lastCall' = Call("destroy")
    /\ UNCHANGED <<programConfigurations, vertexBuffers, uploaded>>

\* ProgramConfiguration.destroy() on the i-th configuration
ConfigurationDestroy(i) ==
    /\ i \in DOMAIN programConfigurations
    /\ LET log == destroy(programConfigurations[i], destroyCalls)
       IN  /\ Len(log) <= MaxDestroyCalls
           /\ destroyCalls' = log
    /\ exception' = "none"
    /\ lastCall' = Call("destroy")
    /\ UNCHANGED <<programConfigurations, vertexBuffers, uploaded>>

Lengths == 0..MaxLen

Next ==
    \/ /\ lastCall.op = "new"
       /\ \E layers \in LayerLists, zoom \in Zooms, filterProperties \in Filters :
             ProgramConfigurationSetConstructor(layers, zoom, filterProperties)
    \/ \E length \in Lengths, feature \in Features :
          SetPopulatePaintArrays(length, feature)
    \/ \E i \in DOMAIN programConfigurations, length \in Lengths,
          feature \in Features :
          ConfigurationPopulatePaintArrays(i, length, feature)
    \/ \E i \in DOMAIN programConfigurations, property \in DataDrivenProps,
          length \in Lengths, feature \in Features :
          BinderPopulatePaintArray(i, property, length, feature)
    \/ SetUpload
    \/ \E i \in DOMAIN programConfigurations : ConfigurationUpload(i)
    \/ SetDestroy
    \/ \E i \in DOMAIN programConfigurations : ConfigurationDestroy(i)

Spec == Init /\ [][Next]_vars

\* --------------------------------------------------------------- vocabulary
\* indexes of the configurations / keys of the binders of configuration i
Configurations == DOMAIN programConfigurations

Binder(i, property) == programConfigurations[i].binders[property]

BinderKeys(i) == DOMAIN programConfigurations[i].binders

IsNumeric(b, kind) == b.kind = kind /\ b.type = "number"

\* n copies of entry
Replicate(n, entry) == [k \in 1..n |-> entry]

\* how often x occurs in seq
Count(seq, x) == Cardinality({k \in DOMAIN seq : seq[k] = x})

\* the greatest element of a non-empty set of numbers
MaxOfSet(S) == CHOOSE m \in S : \A x \in S : x <= m

\* a <= b on statistics.max values
StatLessEq(a, b) == a = << >> \/ (b # << >> /\ a[1] <= b[1])

\* ----------------------------------------------------------------------- C1
\* C1 as stated: after a populatePaintArray(length, feature) call on a
\* numeric SourceExpressionBinder the array's length is the length passed
\* to that call, the indexes from the old length on hold
\* evaluate({zoom: 0}, feature), and the older entries are unchanged.
C1_LengthIsLatestCount ==
    [][\A i \in Configurations, property \in DataDrivenProps :
          (/\ lastCall'.op = "populatePaintArray"
           /\ property \in BinderKeys(i)
           /\ IsNumeric(Binder(i, property), "source"))
          => \A length \in Lengths, feature \in Features :
                BinderPopulatePaintArray(i, property, length, feature)
                => LET old == Binder(i, property).paintVertexArray
                       new == programConfigurations'[i].binders[property]
                                  .paintVertexArray
                   IN  /\ Len(new) = length
                       /\ Len(new) >= Len(old)
                       /\ SubSeq(new, 1, Len(old)) = old
                       /\ \A k \in (Len(old) + 1)..Len(new) :
                             new[k] = << EvaluateNumber(0, feature) >>]_vars

\* C1 amended: the array's length after the call is the larger of its old
\* length and the length passed (so, from the empty array of construction,
\* the largest count passed so far); the new indexes hold
\* evaluate({zoom: 0}, feature) and the older entries are unchanged.
C1_SourceAppend ==
    [][\A i \in Configurations, property \in DataDrivenProps :
          (/\ lastCall'.op = "populatePaintArray"
           /\ property \in BinderKeys(i)
           /\ IsNumeric(Binder(i, property), "source"))
          => \A length \in Lengths, feature \in Features :
                BinderPopulatePaintArray(i, property, length, feature)
                => LET old == Binder(i, property).paintVertexArray
                       new == programConfigurations'[i].binders[property]
                                  .paintVertexArray
                   IN  /\ Len(new) = Greater(Len(old), length)
                       /\ SubSeq(new, 1, Len(old)) = old
                       /\ \A k \in (Len(old) + 1)..Len(new) :
                             new[k] = << EvaluateNumber(0, feature) >>]_vars

\* a numeric source binder filled by two calls with different features
C1_Witness ==
    \E i \in Configurations : \E property \in BinderKeys(i) :
       /\ IsNumeric(Binder(i, property), "source")
       /\ Binder(i, property).paintVertexArray =
              << << EvaluateNumber(0, 1) >>, << EvaluateNumber(0, 2) >> >>

\* ----------------------------------------------------------------------- C2
\* C2: a populatePaintArray(length, feature) call on a numeric
\* CompositeExpressionBinder of zoom Z appends the one pair
\* (evaluate(Z), evaluate(Z + 1)) for every index from the old length up to
\* length and leaves the pairs written before unchanged.
C2_CompositeAppend ==
    [][\A i \in Configurations, property \in DataDrivenProps :
          (/\ lastCall'.op = "populatePaintArray"
           /\ property \in BinderKeys(i)
           /\ IsNumeric(Binder(i, property), "composite"))
          => \A length \in Lengths, feature \in Features :
                BinderPopulatePaintArray(i, property, length, feature)
                => LET b == Binder(i, property)
                       old == b.paintVertexArray
                       new == programConfigurations'[i].binders[property]
                                  .paintVertexArray
                       pair == << EvaluateNumber(b.zoom, feature),
                                  EvaluateNumber(b.zoom + 1, feature) >>
                   IN  new = old \o Replicate(length - Len(old), pair)]_vars

\* a numeric composite binder filled by two calls with different features
C2_Witness ==
    \E i \in Configurations : \E property \in BinderKeys(i) :
       LET b == Binder(i, property)
       IN  /\ IsNumeric(b, "composite")
           /\ b.paintVertexArray =
                  << << EvaluateNumber(b.zoom, 1), EvaluateNumber(b.zoom + 1, 1) >>,
                     << EvaluateNumber(b.zoom, 2), EvaluateNumber(b.zoom + 1, 2) >> >>

\* ----------------------------------------------------------------------- C9
\* statistics.max of a numeric Source/Composite binder is the greatest value
\* its populatePaintArray calls evaluated (both bounds for Composite),
\* -Infinity while there is none; of any other binder it is -Infinity
C9_StatisticsOfBinders ==
    \A i \in Configurations : \A property \in BinderKeys(i) :
       LET b == Binder(i, property)
       IN  IF IsNumeric(b, "source") \/ IsNumeric(b, "composite")
           THEN b.max = IF b.evaluated = {} THEN << >>
                        ELSE << MaxOfSet(b.evaluated) >>
           ELSE b.max = << >>

\* C9: statistics.max starts at -Infinity, never decreases, is the maximum
\* of the values evaluated so far for numeric Source and Composite binders
\* and stays -Infinity for ConstantBinders and color-typed binders.
C9_StatisticsMax ==
    /\ [] C9_StatisticsOfBinders
    /\ [][\A i \in Configurations : \A property \in BinderKeys(i) :
             (i \in DOMAIN programConfigurations'
              /\ property \in DOMAIN programConfigurations'[i].binders)
             => StatLessEq(Binder(i, property).max,
                           programConfigurations'[i].binders[property].max)]_vars

\* a numeric composite binder that evaluated both features beside a
\* populated color binder
C9_Witness ==
    \E i \in Configurations : \E property, other \in BinderKeys(i) :
       /\ IsNumeric(Binder(i, property), "composite")
       /\ Cardinality(Binder(i, property).evaluated) = 4
       /\ Binder(i, property).max = << EvaluateNumber(Binder(i, property).zoom + 1, 1) >>
       /\ Binder(i, other).type = "color"
       /\ Binder(i, other).kind = "source"
       /\ Binder(i, other).paintVertexArray # << >>
       /\ Binder(i, other).max = << >>

\* ----------------------------------------------------------------------- C4
\* C4 as stated: upload creates a vertex buffer only for a non-empty byte
\* buffer: in no step does a binder whose paintVertexArray is empty get a
\* paintVertexBuffer, nor is createVertexBuffer called for it.
C4_NoBufferForEmptyArray ==
    [][\A i \in Configurations : \A property \in BinderKeys(i) :
          Binder(i, property).paintVertexArray = << >>
          => /\ programConfigurations'[i].binders[property].paintVertexBuffer
                    = Binder(i, property).paintVertexBuffer
             /\ \A h \in (Len(vertexBuffers) + 1)..Len(vertexBuffers') :
                   vertexBuffers'[h] # [layer |-> programConfigurations[i].id,
                                        property |-> property]]_vars

\* C4 amended: upload creates a vertex buffer for every Source and Composite
\* binder whatever the length of its paintVertexArray (the guard tests the
\* array object, which the constructor always creates), so a binder whose
\* array is empty at upload time gets a paintVertexBuffer too; a
\* ConstantBinder never has one.
C4_UploadCreatesBuffer ==
    \A i \in Configurations : \A property \in BinderKeys(i) :
       LET b == Binder(i, property)
       IN  /\ (programConfigurations[i].id \in uploaded
               /\ b.kind \in {"source", "composite"})
              => /\ b.paintVertexBuffer \in 1..Len(vertexBuffers)
                 /\ vertexBuffers[b.paintVertexBuffer] =
                        [layer |-> programConfigurations[i].id,
                         property |-> property]
           /\ b.kind = "constant" => b.paintVertexBuffer = undefined
           /\ programConfigurations[i].id \notin uploaded
              => b.paintVertexBuffer = undefined

\* after upload, a source binder that was never populated holds a buffer
C4_Witness ==
    /\ lastCall.op = "upload"
    /\ \E i \in Configurations : \E property \in BinderKeys(i) :
          /\ Binder(i, property).kind = "source"
          /\ Binder(i, property).paintVertexArray = << >>
          /\ Binder(i, property).paintVertexBuffer # undefined

\* ----------------------------------------------------------------------- C5
\* C5: destroy on a configuration (or set) that was never uploaded does not
\* fail and calls destroy on no buffer handle; in general destroy is called
\* only on handles createVertexBuffer returned (never on undefined, which
\* would be a TypeError).
C5_DestroyOnlyCreated ==
    /\ uploaded = {} => destroyCalls = << >>
    /\ \A k \in DOMAIN destroyCalls : destroyCalls[k] \in 1..Len(vertexBuffers)
    /\ lastCall.op = "destroy" => exception = "none"

\* destroy has run on a populated configuration that was never uploaded
C5_Witness ==
    /\ lastCall.op = "destroy"
    /\ uploaded = {}
    /\ destroyCalls = << >>
    /\ \E i \in Configurations : \E property \in BinderKeys(i) :
          /\ Binder(i, property).kind \in {"source", "composite"}
          /\ Binder(i, property).paintVertexArray # << >>

\* ----------------------------------------------------------------------- C6
\* the handles of the buffer-backed binders of configuration c, in the
\* order of the binders' keys
BackedKeys(c) ==
    SelectSeq(c.keys,
              LAMBDA property :
                  /\ c.binders[property].kind \in {"source", "composite"}
                  /\ c.binders[property].paintVertexBuffer # undefined)

\* C6: getPaintVertexBuffers returns the empty list before the first
\* upload; after upload it returns the paintVertexBuffer handles of the
\* Source/Composite binders that have one, one per binder in the binders'
\* iteration order, and no entry for a ConstantBinder.
C6_PaintVertexBuffers ==
    \A i \in Configurations :
       LET c == programConfigurations[i]
           buffers == getPaintVertexBuffers(c)
       IN  IF c.id \notin uploaded
           THEN buffers = << >>
           ELSE /\ Len(buffers) = Len(BackedKeys(c))
                /\ \A k \in DOMAIN buffers :
                      /\ buffers[k] = c.binders[BackedKeys(c)[k]].paintVertexBuffer
                      /\ buffers[k] \in 1..Len(vertexBuffers)
                      /\ c.binders[vertexBuffers[buffers[k]].property].kind
                             # "constant"

\* an uploaded configuration of a constant binder followed by a
\* buffer-backed one: one buffer for two binders
C6_Witness ==
    \E i \in Configurations :
       LET c == programConfigurations[i]
       IN  /\ c.id \in uploaded
           /\ Len(c.keys) = 2
           /\ c.binders[c.keys[1]].kind = "constant"
           /\ c.binders[c.keys[2]].kind = "composite"
           /\ getPaintVertexBuffers(c) = << c.binders[c.keys[2]].paintVertexBuffer >>
           /\ c.binders[c.keys[2]].paintVertexBuffer # undefined

\* ---------------------------------------------------------------------- C10
\* C10: every handle createVertexBuffer returned is owned by exactly one
\* binder and destroyed exactly once: destroy is called on no handle twice,
\* and once destroy has been called no created handle is left undestroyed.
C10_DestroyedExactlyOnce ==
    /\ \A h \in DOMAIN vertexBuffers : Count(destroyCalls, h) <= 1
    /\ lastCall.op = "destroy"
       => \A h \in DOMAIN vertexBuffers : Count(destroyCalls, h) = 1
    /\ \A h \in DOMAIN vertexBuffers :
          Count(destroyCalls, h) = 0
          => Cardinality({ip \in Configurations \X DataDrivenProps :
                 /\ ip[2] \in BinderKeys(ip[1])
                 /\ Binder(ip[1], ip[2]).paintVertexBuffer = h}) = 1

\* ----------------------------------------------------------------------- C7
\* C7: populatePaintArrays calls populatePaintArray exactly once on every
\* binder that is not on the layout-exception list and on no binder of
\* line-pattern, whose paint array stays as it was, and completes without
\* failing.
C7_PopulateForwardsOnce ==
    /\ lastCall.op = "populatePaintArrays"
       => /\ exception = "none"
          /\ \E targets \in {{i} : i \in Configurations} \cup {Configurations} :
                \A i \in Configurations : \A property \in BinderKeys(i) :
                   Count(lastCall.made,
                         <<programConfigurations[i].id, property>>) =
                       IF i \in targets /\ property # "line-pattern" THEN 1 ELSE 0
    /\ \A i \in Configurations :
          "line-pattern" \in BinderKeys(i)
          => Binder(i, "line-pattern").paintVertexArray = << >>

\* ----------------------------------------------------------------------- C8
\* C8: in createDynamic, layout selection for a source or composite
\* property of type color or number that is not line-pattern succeeds and
\* yields the default layout of (type, kind), whose component count is the
\* one declared in the binder's paintVertexAttributes.
C8_DefaultLayoutSelected ==
    lastCall.op = "constructor"
    => \A d \in lastCall.declared :
          (/\ d[3] \in {"source", "composite"}
           /\ d[2] \in lastCall.accepted \cap DataDrivenProps
           /\ d[2] # "line-pattern"
           /\ SpecificationType(d[2]) \in {"color", "number"})
          => /\ exception = "none"
             /\ \E i \in Configurations :
                   /\ programConfigurations[i].id = d[1]
                   /\ d[2] \in BinderKeys(i)
                   /\ Binder(i, d[2]).kind = d[3]
                   /\ Binder(i, d[2]).layout =
                          defaultLayouts(SpecificationType(d[2]), d[3])
                   /\ LayoutComponents(Binder(i, d[2]).layout) =
                          AttributeComponents(d[2], Binder(i, d[2]))

\* ----------------------------------------------------------------------- C3
\* the tokens of a set of (property, kind) pairs, least first, concatenated
RECURSIVE SortedConcatenation(_)
SortedConcatenation(tokens) ==
    IF tokens = {} THEN << >>
    ELSE LET least == CHOOSE t \in tokens :
                         \A u \in tokens \ {t} : StringLess(t, u)
         IN  least \o SortedConcatenation(tokens \ {least})

\* C3: the cacheKey createDynamic gives a layer depends only on the set of
\* its (property, kind) pairs, not on their order: it is the sorted
\* concatenation of one token per accepted data-driven-capable property,
\* /u_ for constant, /a_ for source, /z_ for composite.
C3_CacheKeyOfPropertySet ==
    lastCall.op = "constructor"
    => \A id \in {d[1] : d \in lastCall.declared} :
          \E i \in Configurations :
             /\ programConfigurations[i].id = id
             /\ programConfigurations[i].cacheKey =
                    SortedConcatenation(
                        {Token(d[3], d[2]) :
                            d \in {e \in lastCall.declared :
                                      /\ e[1] = id
                                      /\ e[2] \in lastCall.accepted
                                                  \cap DataDrivenProps}})

=============================================================================
